---- MODULE Spec2Model ----
(***************************************************************************)
(* A model of the a1_notation crate: the reference data model (Column,     *)
(* Row, Address, RangeOrCell, A1), the containment predicate, the cell     *)
(* enumerator, and the text conversions (FromStr / Display).               *)
(*                                                                         *)
(* Text is modelled as sequences of one-character strings, so that         *)
(* parsing and formatting are computed character by character as the code  *)
(* does.  Option<T> is modelled by None / Some(v); Result<T> by Ok(v) /    *)
(* Err, plus Panic for an arithmetic overflow under overflow checks.       *)
(***************************************************************************)
EXTENDS Integers, Sequences, FiniteSets, TLC

VARIABLES
    op,       \* the call the state is about: "ready" before it, its name after it
    self,     \* contains: the receiver
    other,    \* contains: the argument
    result,   \* contains: the returned bool
    range,    \* enumeration: the RangeOrCell that iter() was called on
    iter,     \* enumeration: the RangeOrCellIterator state
    trace,    \* enumeration: everything next() has returned so far, in order
    input,    \* text: the argument of the conversion (a string or a value)
    build,    \* text: "debug" (overflow checks on) or "release" (wrapping)
    outcome,  \* text: what from_str returned
    output    \* text: what to_string returned

vars == <<op, self, other, result, range, iter, trace, input, build, outcome, output>>

Idle == "idle"

(***************************************************************************)
(* Bounds of the model.                                                    *)
(***************************************************************************)
\* column and row indices of the references drawn are 0..MaxIndex
MaxIndex == 2
\* a NonContiguous that is drawn has at most MaxMembers members
MaxMembers == 2

(***************************************************************************)
(* Option                                                                  *)
(***************************************************************************)
None == [tag |-> "None"]
Some(v) == [tag |-> "Some", v |-> v]
IsSome(o) == o.tag = "Some"

Min(a, b) == IF a <= b THEN a ELSE b
Max(a, b) == IF a >= b THEN a ELSE b

(***************************************************************************)
(* Column, Row, Address                                                    *)
(***************************************************************************)
\* pub type Index = usize.  TLC's integers are 32 bits wide, so the model's
\* usize::MAX is the largest integer TLC has; no index drawn comes near it.
UsizeMax == 2147483647

saturating_sub(a, b) == IF a >= b THEN a - b ELSE 0
saturating_add(a, b) == IF a >= UsizeMax - b THEN UsizeMax ELSE a + b

Column(absolute, x) == [absolute |-> absolute, x |-> x]
Row(absolute, y) == [absolute |-> absolute, y |-> y]
Column_new(x) == Column(FALSE, x)
Row_new(y) == Row(FALSE, y)

\* an equality over both fields, as #[derive(PartialEq)] would give
Column_eq_derived(a, b) == a = b

\* impl PartialEq / Ord for Column and Row: the index alone
Column_eq(a, b) == a.x = b.x
Row_eq(a, b) == a.y = b.y
Column_lt(a, b) == a.x < b.x
Row_lt(a, b) == a.y < b.y

\* a test that takes a for the lower and b for the upper endpoint
Column_is_between_in_order(c, a, b) == c.x >= a.x /\ c.x <= b.x

\* cmp::min / cmp::max of the two endpoints, then self >= from && self <= to
Column_is_between(c, a, b) ==
    LET from == IF a.x <= b.x THEN a ELSE b
        to == IF a.x <= b.x THEN b ELSE a
    IN  c.x >= from.x /\ c.x <= to.x

Row_is_between(r, a, b) ==
    LET from == IF a.y <= b.y THEN a ELSE b
        to == IF a.y <= b.y THEN b ELSE a
    IN  r.y >= from.y /\ r.y <= to.y

\* a shift left by plain subtraction on usize, wrapping below zero
Column_shift_left_wrapping(c, columns) ==
    [c EXCEPT !.x = IF c.x >= columns THEN c.x - columns
                    ELSE (UsizeMax - (columns - c.x)) + 1]

Column_shift_left(c, columns) == [c EXCEPT !.x = Max(saturating_sub(c.x, columns), 0)]
\* a shift right that moves two columns for every one asked
Column_shift_right_twice(c, columns) == [c EXCEPT !.x = saturating_add(c.x, 2 * columns)]

Column_shift_right(c, columns) == [c EXCEPT !.x = saturating_add(c.x, columns)]
Row_shift_down(r, rows) == IF rows = 0 THEN r ELSE [r EXCEPT !.y = saturating_add(r.y, rows)]

\* a shift up that builds the row anew, without its marker
Row_shift_up_unmarked(r, rows) == Row_new(Max(saturating_sub(r.y, rows), 0))

Row_shift_up(r, rows) == IF rows = 0 THEN r ELSE [r EXCEPT !.y = Max(saturating_sub(r.y, rows), 0)]

\* a with_x that leaves the column where it is
Column_with_x_unchanged(c, x) == c

\* Self { x, ..*self }: the absolute marker is kept
Column_with_x(c, x) == [c EXCEPT !.x = x]
Row_with_y(r, y) == [r EXCEPT !.y = y]

Address(column, row) == [column |-> column, row |-> row]
Address_new(column_index, row_index) == Address(Column_new(column_index), Row_new(row_index))

\* #[derive(PartialEq)] on Address: column == column && row == row
Address_eq(a, b) == Column_eq(a.column, b.column) /\ Row_eq(a.row, b.row)

origin_distance(a) == a.column.x + a.row.y

Address_is_between(s, a, b) ==
    LET a_dist == origin_distance(a)
        b_dist == origin_distance(b)
        top_left == IF a_dist < b_dist THEN a ELSE b
        bottom_right == IF a_dist < b_dist THEN b ELSE a
    IN  /\ s.column.x >= top_left.column.x
        /\ s.row.y >= top_left.row.y
        /\ s.column.x <= bottom_right.column.x
        /\ s.row.y <= bottom_right.row.y

\* a shift down that moves the column as well
Address_shift_down_diagonal(a, rows) ==
    Address(Column_shift_right(a.column, rows), Row_shift_down(a.row, rows))

Address_shift_down(a, rows) == [a EXCEPT !.row = Row_shift_down(a.row, rows)]
Address_shift_left(a, columns) == [a EXCEPT !.column = Column_shift_left(a.column, columns)]
Address_shift_right(a, columns) == [a EXCEPT !.column = Column_shift_right(a.column, columns)]
Address_shift_up(a, rows) == [a EXCEPT !.row = Row_shift_up(a.row, rows)]
\* a with_x that forgets to set the column
Address_with_x_unchanged(a, x) == a

\* column: x.into() is Column::new(x): the absolute marker is not kept
Address_with_x(a, x) == [a EXCEPT !.column = Column_new(x)]
Address_with_y(a, y) == [a EXCEPT !.row = Row_new(y)]

(***************************************************************************)
(* RangeOrCell                                                             *)
(***************************************************************************)
Cell(a) == [tag |-> "Cell", a |-> a]
ColumnRange(from, to) == [tag |-> "ColumnRange", from |-> from, to |-> to]
NonContiguous(range_or_cells) == [tag |-> "NonContiguous", items |-> range_or_cells]
Range(from, to) == [tag |-> "Range", from |-> from, to |-> to]
RowRange(from, to) == [tag |-> "RowRange", from |-> from, to |-> to]

\* a test that asks for every member instead of some member
any_as_all(tests) == \A k \in DOMAIN tests : tests[k]

\* range_or_cells.iter().any(..): tests holds the closure's result for every
\* member; true when one of them is
any(tests) == \E k \in DOMAIN tests : tests[k]

RECURSIVE RangeOrCell_contains(_, _)
RangeOrCell_contains(s, o) ==
    CASE s.tag = "Cell" ->
            ( CASE o.tag = "Cell" -> Address_eq(s.a, o.a)
                [] o.tag = "NonContiguous" ->
                      \A k \in DOMAIN o.items : RangeOrCell_contains(o.items[k], s)
                [] OTHER -> FALSE )
      [] s.tag = "ColumnRange" ->
            ( CASE o.tag = "ColumnRange" ->
                      /\ Column_is_between(o.from, s.from, s.to)
                      /\ Column_is_between(o.to, s.from, s.to)
                [] o.tag = "Cell" -> Column_is_between(o.a.column, s.from, s.to)
                [] o.tag = "NonContiguous" ->
                      \A k \in DOMAIN o.items : RangeOrCell_contains(o.items[k], s)
                [] o.tag = "Range" ->
                      /\ Column_is_between(o.from.column, s.from, s.to)
                      /\ Column_is_between(o.to.column, s.from, s.to)
                [] o.tag = "RowRange" -> FALSE )
      [] s.tag = "NonContiguous" ->
            any([k \in DOMAIN s.items |-> RangeOrCell_contains(s.items[k], o)])
      [] s.tag = "RowRange" ->
            ( CASE o.tag = "ColumnRange" -> FALSE
                [] o.tag = "Cell" -> Row_is_between(o.a.row, s.from, s.to)
                [] o.tag = "RowRange" ->
                      /\ Row_is_between(o.from, s.from, s.to)
                      /\ Row_is_between(o.to, s.from, s.to)
                [] o.tag = "NonContiguous" ->
                      \A k \in DOMAIN o.items : RangeOrCell_contains(o.items[k], s)
                [] o.tag = "Range" ->
                      /\ Row_is_between(o.from.row, s.from, s.to)
                      /\ Row_is_between(o.to.row, s.from, s.to) )
      [] s.tag = "Range" ->
            ( CASE o.tag = "ColumnRange" -> FALSE
                [] o.tag = "Cell" -> Address_is_between(o.a, s.from, s.to)
                [] o.tag = "RowRange" -> FALSE
                [] o.tag = "NonContiguous" ->
                      \A k \in DOMAIN o.items : RangeOrCell_contains(o.items[k], s)
                [] o.tag = "Range" ->
                      /\ Address_is_between(o.from, s.from, s.to)
                      /\ Address_is_between(o.to, s.from, s.to) )

(***************************************************************************)
(* RangeOrCell: shift_down, shift_left, shift_right, shift_up, with_x,     *)
(* with_y                                                                  *)
(***************************************************************************)
RECURSIVE RangeOrCell_shift_down(_, _)
RangeOrCell_shift_down(s, rows) ==
    CASE s.tag = "Cell" -> Cell(Address_shift_down(s.a, rows))
      [] s.tag = "ColumnRange" -> s
      [] s.tag = "NonContiguous" ->
            NonContiguous([k \in DOMAIN s.items |-> RangeOrCell_shift_down(s.items[k], rows)])
      [] s.tag = "Range" ->
            Range(Address_shift_down(s.from, rows), Address_shift_down(s.to, rows))
      [] s.tag = "RowRange" ->
            RowRange(Row_shift_down(s.from, rows), Row_shift_down(s.to, rows))

RECURSIVE RangeOrCell_shift_left(_, _)
RangeOrCell_shift_left(s, columns) ==
    CASE s.tag = "Cell" -> Cell(Address_shift_left(s.a, columns))
      [] s.tag = "ColumnRange" ->
            ColumnRange(Column_shift_left(s.from, columns), Column_shift_left(s.to, columns))
      [] s.tag = "NonContiguous" ->
            NonContiguous([k \in DOMAIN s.items |-> RangeOrCell_shift_left(s.items[k], columns)])
      [] s.tag = "Range" ->
            Range(Address_shift_left(s.from, columns), Address_shift_left(s.to, columns))
      [] s.tag = "RowRange" -> s

RECURSIVE RangeOrCell_shift_right(_, _)
RangeOrCell_shift_right(s, columns) ==
    CASE s.tag = "Cell" -> Cell(Address_shift_right(s.a, columns))
      [] s.tag = "ColumnRange" ->
            ColumnRange(Column_shift_right(s.from, columns), Column_shift_right(s.to, columns))
      [] s.tag = "NonContiguous" ->
            NonContiguous([k \in DOMAIN s.items |-> RangeOrCell_shift_right(s.items[k], columns)])
      [] s.tag = "Range" ->
            Range(Address_shift_right(s.from, columns), Address_shift_right(s.to, columns))
      [] s.tag = "RowRange" -> s

RECURSIVE RangeOrCell_shift_up(_, _)
RangeOrCell_shift_up(s, rows) ==
    CASE s.tag = "Cell" -> Cell(Address_shift_up(s.a, rows))
      [] s.tag = "ColumnRange" -> s
      [] s.tag = "NonContiguous" ->
            NonContiguous([k \in DOMAIN s.items |-> RangeOrCell_shift_up(s.items[k], rows)])
      [] s.tag = "Range" ->
            Range(Address_shift_up(s.from, rows), Address_shift_up(s.to, rows))
      [] s.tag = "RowRange" ->
            RowRange(Row_shift_up(s.from, rows), Row_shift_up(s.to, rows))

RECURSIVE RangeOrCell_with_x(_, _)
RangeOrCell_with_x(s, x) ==
    CASE s.tag = "Cell" -> Cell(Address_with_x(s.a, x))
      [] s.tag = "ColumnRange" -> ColumnRange(Column_with_x(s.from, x), Column_with_x(s.to, x))
      [] s.tag = "NonContiguous" ->
            NonContiguous([k \in DOMAIN s.items |-> RangeOrCell_with_x(s.items[k], x)])
      [] s.tag = "Range" -> Range(Address_with_x(s.from, x), Address_with_x(s.to, x))
      [] s.tag = "RowRange" -> Range(Address_new(x, s.from.y), Address_new(x, s.to.y))

RECURSIVE RangeOrCell_with_y(_, _)
RangeOrCell_with_y(s, y) ==
    CASE s.tag = "Cell" -> Cell(Address_with_y(s.a, y))
      [] s.tag = "ColumnRange" -> Range(Address_new(s.from.x, y), Address_new(s.to.x, y))
      [] s.tag = "NonContiguous" ->
            NonContiguous([k \in DOMAIN s.items |-> RangeOrCell_with_y(s.items[k], y)])
      [] s.tag = "Range" -> Range(Address_with_y(s.from, y), Address_with_y(s.to, y))
      [] s.tag = "RowRange" -> RowRange(Row_with_y(s.from, y), Row_with_y(s.to, y))

(***************************************************************************)
(* RangeOrCellIterator                                                     *)
(***************************************************************************)
\* a direction that is not derived from the endpoints
horizontal_direction_always_right(a, b) == "Right"

\* a vertical direction that is not derived from the endpoints
vertical_direction_always_down(a, b) == "Down"

horizontal_direction(a, b) == IF Column_lt(a, b) THEN "Right" ELSE "Left"
vertical_direction(a, b) == IF Row_lt(a, b) THEN "Down" ELSE "Up"

\* Into<RangeOrCell> for Address, Column and Row
Address_into(a) == Cell(a)
Column_into(c) == ColumnRange(c, c)
Row_into(r) == RowRange(r, r)

RangeOrCell_iter(r) ==
    CASE r.tag = "Cell" -> [tag |-> "Cell", address |-> Some(r.a)]
      [] r.tag = "ColumnRange" ->
            [tag |-> "ColumnRange",
             current |-> Some(r.from),
             horizontal_direction |-> horizontal_direction(r.from, r.to),
             end |-> r.to]
      [] r.tag = "NonContiguous" ->
            [tag |-> "NonContiguous", iter |-> None, range_or_cells |-> r.items, i |-> 0]
      [] r.tag = "Range" ->
            [tag |-> "Range",
             current |-> Some(r.from),
             end |-> r.to,
             horizontal_direction |-> horizontal_direction(r.from.column, r.to.column),
             start |-> r.from,
             vertical_direction |-> vertical_direction(r.from.row, r.to.row)]
      [] r.tag = "RowRange" ->
            [tag |-> "RowRange",
             current |-> Some(r.from),
             end |-> r.to,
             vertical_direction |-> vertical_direction(r.from, r.to)]

\* what one call of next() leaves behind and returns
Step(it, item) == [it |-> it, item |-> item]

Cell_next(it) ==
    IF ~IsSome(it.address) THEN Step(it, None)
    ELSE Step([it EXCEPT !.address = None], Some(Address_into(it.address.v)))

ColumnRange_next(it) ==
    IF ~IsSome(it.current) THEN Step(it, None)
    ELSE LET c == it.current.v
             current == IF Column_eq(c, it.end) THEN None
                        ELSE IF it.horizontal_direction = "Right"
                             THEN Some(Column_shift_right(c, 1))
                             ELSE Some(Column_shift_left(c, 1))
         IN  Step([it EXCEPT !.current = current], Some(Column_into(c)))

Range_next(it) ==
    IF ~IsSome(it.current) THEN Step(it, None)
    ELSE LET c == it.current.v
             current ==
                 IF Address_eq(c, it.end) THEN None
                 ELSE IF Column_eq(c.column, it.end.column)
                      THEN Some(Address_with_x(
                               IF it.vertical_direction = "Up"
                               THEN Address_shift_up(c, 1)
                               ELSE Address_shift_down(c, 1),
                               it.start.column.x))
                      ELSE Some(IF it.horizontal_direction = "Left"
                                THEN Address_shift_left(c, 1)
                                ELSE Address_shift_right(c, 1))
         IN  Step([it EXCEPT !.current = current], Some(Address_into(c)))

RowRange_next(it) ==
    IF ~IsSome(it.current) THEN Step(it, None)
    ELSE LET c == it.current.v
             current == IF Row_eq(c, it.end) THEN None
                        ELSE IF it.vertical_direction = "Down"
                             THEN Some(Row_shift_down(c, 1))
                             ELSE Some(Row_shift_up(c, 1))
         IN  Step([it EXCEPT !.current = current], Some(Row_into(c)))

RECURSIVE Iterator_next(_)
\* the NonContiguous arm: use the active iterator while it returns items;
\* otherwise open the iterator of member i, take its first result (whatever
\* it is) and move i on
NonContiguous_next(it) ==
    LET active == IsSome(it.iter)
        n == IF active THEN Iterator_next(it.iter.v) ELSE Step(None, None)
        \* i.next() advanced the boxed iterator in place
        used == IF active THEN [it EXCEPT !.iter = Some(n.it)] ELSE it
    IN  IF active /\ IsSome(n.item) THEN Step(used, n.item)
        ELSE IF used.i < Len(used.range_or_cells)
             THEN LET r == used.range_or_cells[used.i + 1]
                      first == Iterator_next(RangeOrCell_iter(r))
                  IN  Step([used EXCEPT !.i = used.i + 1, !.iter = Some(first.it)],
                           first.item)
             ELSE Step(used, None)

Iterator_next(it) ==
    CASE it.tag = "Cell" -> Cell_next(it)
      [] it.tag = "ColumnRange" -> ColumnRange_next(it)
      [] it.tag = "NonContiguous" -> NonContiguous_next(it)
      [] it.tag = "Range" -> Range_next(it)
      [] it.tag = "RowRange" -> RowRange_next(it)

(***************************************************************************)
(* Text: characters and Result                                             *)
(***************************************************************************)
Ok(v) == [tag |-> "Ok", v |-> v]
\* Error::A1ParseError (its bad_input and message are not modelled)
Err == [tag |-> "Err"]
\* "attempt to subtract with overflow": the panic of a build with overflow checks
Panic == [tag |-> "Panic"]
IsOk(r) == r.tag = "Ok"

ALPHA == <<"A", "B", "C", "D", "E", "F", "G", "H", "I",
           "J", "K", "L", "M", "N", "O", "P", "Q", "R",
           "S", "T", "U", "V", "W", "X", "Y", "Z">>
LowerAlpha == <<"a", "b", "c", "d", "e", "f", "g", "h", "i",
                "j", "k", "l", "m", "n", "o", "p", "q", "r",
                "s", "t", "u", "v", "w", "x", "y", "z">>
Digits == <<"0", "1", "2", "3", "4", "5", "6", "7", "8", "9">>

IndexOf(seq, ch) ==
    IF \E k \in DOMAIN seq : seq[k] = ch
    THEN Some((CHOOSE k \in DOMAIN seq : seq[k] = ch) - 1)
    ELSE None

to_ascii_uppercase(ch) ==
    LET k == IndexOf(LowerAlpha, ch) IN IF IsSome(k) THEN ALPHA[k.v + 1] ELSE ch
is_ascii_digit(ch) == IsSome(IndexOf(Digits, ch))
is_ascii_alphabetic(ch) == IsSome(IndexOf(ALPHA, ch)) \/ IsSome(IndexOf(LowerAlpha, ch))
is_whitespace(ch) == ch \in {" ", "\t", "\n"}

\* &s[from..to] with zero-based, half-open bounds
Slice(s, from, to) == [k \in 1..(to - from) |-> s[from + k]]
SliceFrom(s, from) == Slice(s, from, Len(s))
StartsWith(s, ch) == Len(s) > 0 /\ s[1] = ch
\* the zero-based index of the first ch of s, if any
Find(s, ch) == IndexOf(s, ch)

\* char::len_utf8: the one character outside ASCII of the inputs takes two bytes
len_utf8(ch) == IF ch = "é" THEN 2 ELSE 1
\* the byte offset of the character with zero-based index k
RECURSIVE ByteOffset(_, _)
ByteOffset(s, k) == IF k = 0 THEN 0 ELSE ByteOffset(s, k - 1) + len_utf8(s[k])
\* str::is_char_boundary
is_char_boundary(s, n) == \E k \in 0..Len(s) : ByteOffset(s, k) = n
\* the zero-based index of the character that starts at byte n
CharIndex(s, n) == CHOOSE k \in 0..Len(s) : ByteOffset(s, k) = n
\* &s[n..] and &s[..n] for a byte offset n on a character boundary; the
\* callers answer Panic for an offset inside a character
ByteSliceFrom(s, n) == SliceFrom(s, CharIndex(s, n))
ByteSliceTo(s, n) == Slice(s, 0, CharIndex(s, n))

\* s.strip_prefix('$'): whether one was there, and the rest
strip_prefix_dollar(s) ==
    IF StartsWith(s, "$") THEN [absolute |-> TRUE, ys |-> Tail(s)]
    ELSE [absolute |-> FALSE, ys |-> s]

(***************************************************************************)
(* impl FromStr for Column, Row, Address                                   *)
(***************************************************************************)
\* the loop of Column::from_str over ys.chars(), from accumulator x:
\* None on a character that is not a letter
RECURSIVE ColumnAccumulate(_, _)
ColumnAccumulate(ys, x) ==
    IF ys = <<>> THEN Some(x)
    ELSE LET ch_index == IndexOf(ALPHA, to_ascii_uppercase(Head(ys)))
         IN  IF IsSome(ch_index)
             THEN ColumnAccumulate(Tail(ys), x * 26 + ch_index.v + 1)
             ELSE None

\* `x - 1` on a usize: below zero it panics with overflow checks (debug
\* builds) and wraps to usize::MAX without them (release builds)
UsizeMinusOne(x, b) ==
    IF x >= 1 THEN Ok(x - 1)
    ELSE IF b = "debug" THEN Panic ELSE Ok(UsizeMax)

Column_from_str(s, b) ==
    LET p == strip_prefix_dollar(s)
        x == ColumnAccumulate(p.ys, 0)
    IN  IF ~IsSome(x) THEN Err
        ELSE LET x1 == UsizeMinusOne(x.v, b)
             IN  IF IsOk(x1) THEN Ok(Column(p.absolute, x1.v)) ELSE x1

\* the digits of str::parse::<usize>, most significant first
RECURSIVE DigitsValue(_, _)
DigitsValue(ds, acc) ==
    IF ds = <<>> THEN Some(acc)
    ELSE LET d == IndexOf(Digits, Head(ds))
         IN  IF IsSome(d) /\ acc <= (UsizeMax - d.v) \div 10
             THEN DigitsValue(Tail(ds), acc * 10 + d.v)
             ELSE None

\* str::parse::<usize>: an optional `+`, then at least one digit
parse_usize(src) ==
    IF src = <<>> THEN None
    ELSE IF Head(src) \in {"+", "-"} /\ Tail(src) = <<>> THEN None
    ELSE IF Head(src) = "+" THEN DigitsValue(Tail(src), 0)
    ELSE DigitsValue(src, 0)

Row_from_str(s) ==
    LET p == strip_prefix_dollar(s)
        y == parse_usize(p.ys)
    IN  IF ~IsSome(y) THEN Err
        ELSE IF y.v < 1 THEN Err
        ELSE Ok(Row(p.absolute, y.v - 1))

\* the first index i with (c == '$' && i > 0) || c.is_ascii_digit(), else 0:
\* an index of a1.chars().enumerate(), which the caller uses as a byte offset
SplitAt(a1) ==
    LET hits == {i \in 0..(Len(a1) - 1) :
                    (a1[i + 1] = "$" /\ i > 0) \/ is_ascii_digit(a1[i + 1])}
    IN  IF hits = {} THEN 0 ELSE CHOOSE i \in hits : \A j \in hits : i <= j

Address_from_str(a1, b) ==
    LET split_at == SplitAt(a1)
    IN  IF split_at = 0 THEN Err
        ELSE IF ~is_char_boundary(a1, split_at) THEN Panic
        ELSE LET column == Column_from_str(ByteSliceTo(a1, split_at), b)
             IN  IF ~IsOk(column) THEN column
                 ELSE LET row == Row_from_str(ByteSliceFrom(a1, split_at))
                      IN  IF ~IsOk(row) THEN row
                          ELSE Ok(Address(column.v, row.v))

(***************************************************************************)
(* impl FromStr for RangeOrCell                                            *)
(***************************************************************************)
DollarOrDigit(c) == c = "$" \/ is_ascii_digit(c)
DollarOrAlphabetic(c) == c = "$" \/ is_ascii_alphabetic(c)
AllDollarOrDigit(s) == \A k \in DOMAIN s : DollarOrDigit(s[k])
AllDollarOrAlphabetic(s) == \A k \in DOMAIN s : DollarOrAlphabetic(s[k])

\* RangeOrCell::<variant> { from: ..(l)?, to: ..(r)? }: the first error of
\* the two in that order, or the variant built of the two values
Both(from, to, variant) ==
    IF ~IsOk(from) THEN from
    ELSE IF ~IsOk(to) THEN to
    ELSE Ok(CASE variant = "RowRange" -> RowRange(from.v, to.v)
              [] variant = "ColumnRange" -> ColumnRange(from.v, to.v)
              [] variant = "Range" -> Range(from.v, to.v))

parse_str(a1, b) ==
    LET colon == Find(a1, ":")
    IN  IF IsSome(colon)
        THEN LET l == Slice(a1, 0, colon.v)
                 r == SliceFrom(a1, colon.v + 1)
             IN  IF AllDollarOrDigit(l) /\ AllDollarOrDigit(r)
                 THEN Both(Row_from_str(l), Row_from_str(r), "RowRange")
                 ELSE IF AllDollarOrAlphabetic(l) /\ AllDollarOrAlphabetic(r)
                 THEN Both(Column_from_str(l, b), Column_from_str(r, b), "ColumnRange")
                 ELSE Both(Address_from_str(l, b), Address_from_str(r, b), "Range")
        ELSE LET a == Address_from_str(a1, b)
             IN  IF IsOk(a) THEN Ok(Cell(a.v)) ELSE a

\* a1.split(','): always at least one piece
RECURSIVE SplitComma(_)
SplitComma(s) ==
    LET comma == Find(s, ",")
    IN  IF IsSome(comma)
        THEN <<Slice(s, 0, comma.v)>> \o SplitComma(SliceFrom(s, comma.v + 1))
        ELSE <<s>>

\* for range_str in range_strs { ranges.push(parse_str(range_str)?) }
RECURSIVE ParseEach(_, _, _)
ParseEach(range_strs, ranges, b) ==
    IF range_strs = <<>> THEN Ok(NonContiguous(ranges))
    ELSE LET r == parse_str(Head(range_strs), b)
         IN  IF IsOk(r) THEN ParseEach(Tail(range_strs), Append(ranges, r.v), b) ELSE r

RangeOrCell_from_str(a1, b) ==
    LET range_strs == SplitComma(a1)
    IN  IF Len(range_strs) > 1 THEN ParseEach(range_strs, <<>>, b)
        ELSE IF Len(range_strs) >= 1 THEN parse_str(range_strs[1], b)
        ELSE Err

(***************************************************************************)
(* impl FromStr for A1                                                     *)
(***************************************************************************)
A1(sheet_name, reference) == [sheet_name |-> sheet_name, reference |-> reference]

\* a containment that does not look at the sheet names
A1_contains_any_sheet(a, b) == RangeOrCell_contains(a.reference, b.reference)

\* Option<String> == Option<String>, then the references
A1_contains(a, b) ==
    a.sheet_name = b.sheet_name /\ RangeOrCell_contains(a.reference, b.reference)

\* the loop of parse_quoted_sheet_name from character i on: `consumed` is
\* the index of the first character after the closing quote, 0 if the loop
\* ran off the end of the input
RECURSIVE QuotedScan(_, _, _, _, _)
QuotedScan(a1, i, unquoted, saw_start_quote, last_was_quote) ==
    IF i >= Len(a1) THEN [consumed |-> 0, unquoted |-> unquoted]
    ELSE LET c == a1[i + 1]
         IN  IF c = "'"
             THEN IF last_was_quote
                  THEN QuotedScan(a1, i + 1, Append(unquoted, c), saw_start_quote, FALSE)
                  ELSE IF ~saw_start_quote
                  THEN QuotedScan(a1, i + 1, unquoted, TRUE, last_was_quote)
                  ELSE QuotedScan(a1, i + 1, unquoted, saw_start_quote, TRUE)
             ELSE IF last_was_quote
                  THEN [consumed |-> i, unquoted |-> unquoted]
                  ELSE QuotedScan(a1, i + 1, Append(unquoted, c), saw_start_quote, last_was_quote)

\* Ok((sheet_name, rest)); `consumed` counts characters and a1[consumed..]
\* counts bytes
parse_quoted_sheet_name(a1) ==
    LET scan == QuotedScan(a1, 0, <<>>, FALSE, FALSE)
    IN  IF scan.consumed = 0 THEN Err
        ELSE IF ~is_char_boundary(a1, scan.consumed) THEN Panic
        ELSE IF ~StartsWith(ByteSliceFrom(a1, scan.consumed), "!") THEN Err
        ELSE Ok([sheet_name |-> Some(scan.unquoted),
                 rest |-> ByteSliceFrom(a1, scan.consumed + 1)])

RECURSIVE trim_start(_)
trim_start(s) == IF s # <<>> /\ is_whitespace(Head(s)) THEN trim_start(Tail(s)) ELSE s

parse_sheet_name(a1) ==
    LET trimmed_a1 == trim_start(a1)
        bang == Find(a1, "!")
    IN  IF StartsWith(trimmed_a1, "'") THEN parse_quoted_sheet_name(trimmed_a1)
        ELSE IF IsSome(bang)
        THEN Ok([sheet_name |-> Some(Slice(a1, 0, bang.v)),
                 rest |-> SliceFrom(a1, bang.v + 1)])
        ELSE Ok([sheet_name |-> None, rest |-> a1])

A1_from_str(a1, b) ==
    LET name == parse_sheet_name(a1)
    IN  IF ~IsOk(name) THEN name
        ELSE LET reference == RangeOrCell_from_str(name.v.rest, b)
             IN  IF ~IsOk(reference) THEN reference
                 ELSE Ok(A1(name.v.sheet_name, reference.v))

(***************************************************************************)
(* impl Display                                                            *)
(***************************************************************************)
\* letters of a numbering with a zero digit: go on with c / 26, stop at 0
RECURSIVE ColumnLetters_positional(_, _)
ColumnLetters_positional(c, row_part) ==
    IF c \div 26 = 0 THEN <<ALPHA[(c % 26) + 1]>> \o row_part
    ELSE ColumnLetters_positional(c \div 26, <<ALPHA[(c % 26) + 1]>> \o row_part)

\* the loop of Column's fmt: prepend ALPHA[c % 26], go on with c / 26 - 1
RECURSIVE ColumnLetters(_, _)
ColumnLetters(c, row_part) ==
    LET part == <<ALPHA[(c % 26) + 1]>> \o row_part
        next_c == (c \div 26) - 1
    IN  IF next_c < 0 THEN part ELSE ColumnLetters(next_c, part)

abs_char(absolute) == IF absolute THEN <<"$">> ELSE <<>>

Column_display(c) == abs_char(c.absolute) \o ColumnLetters(c.x, <<>>)

\* a usize written in decimal
RECURSIVE Decimal(_)
Decimal(n) ==
    IF n < 10 THEN <<Digits[n + 1]>>
    ELSE Decimal(n \div 10) \o <<Digits[(n % 10) + 1]>>

Row_display(r) == abs_char(r.absolute) \o Decimal(r.y + 1)

Address_display(a) == Column_display(a.column) \o Row_display(a.row)

RECURSIVE RangeOrCell_display(_)
\* .join(", ")
RECURSIVE JoinDisplays(_)
JoinDisplays(range_or_cells) ==
    IF range_or_cells = <<>> THEN <<>>
    ELSE IF Len(range_or_cells) = 1 THEN RangeOrCell_display(range_or_cells[1])
    ELSE RangeOrCell_display(Head(range_or_cells)) \o <<",", " ">>
            \o JoinDisplays(Tail(range_or_cells))

RangeOrCell_display(r) ==
    CASE r.tag = "Cell" -> Address_display(r.a)
      [] r.tag = "ColumnRange" -> Column_display(r.from) \o <<":">> \o Column_display(r.to)
      [] r.tag = "NonContiguous" -> JoinDisplays(r.items)
      [] r.tag = "Range" -> Address_display(r.from) \o <<":">> \o Address_display(r.to)
      [] r.tag = "RowRange" -> Row_display(r.from) \o <<":">> \o Row_display(r.to)

\* sheet_name.replace('\'', "\\'")
RECURSIVE escape_quotes(_)
escape_quotes(sheet_name) ==
    IF sheet_name = <<>> THEN <<>>
    ELSE (IF Head(sheet_name) = "'" THEN <<"\\", "'">> ELSE <<Head(sheet_name)>>)
            \o escape_quotes(Tail(sheet_name))

needs_quotes(sheet_name) ==
    \E k \in DOMAIN sheet_name : is_whitespace(sheet_name[k]) \/ sheet_name[k] = "'"

A1_display(a1) ==
    LET r == RangeOrCell_display(a1.reference)
    IN  IF IsSome(a1.sheet_name)
        THEN IF needs_quotes(a1.sheet_name.v)
             THEN <<"'">> \o escape_quotes(a1.sheet_name.v) \o <<"'", "!">> \o r
             ELSE a1.sheet_name.v \o <<"!">> \o r
        ELSE r

(***************************************************************************)
(* The references drawn as inputs.                                         *)
(***************************************************************************)
Indices == 0..MaxIndex
Columns(flags) == {Column(f, x) : f \in flags, x \in Indices}
Rows(flags) == {Row(f, y) : f \in flags, y \in Indices}
Addresses(flags) == {Address(c, r) : c \in Columns(flags), r \in Rows(flags)}

Cells(flags) == {Cell(a) : a \in Addresses(flags)}
Ranges(flags) == {Range(a, b) : a \in Addresses(flags), b \in Addresses(flags)}
ColumnRanges(flags) == {ColumnRange(a, b) : a \in Columns(flags), b \in Columns(flags)}
RowRanges(flags) == {RowRange(a, b) : a \in Rows(flags), b \in Rows(flags)}

\* every Cell, Range, ColumnRange and RowRange of the grid, in every from/to order
BaseRefs == Cells({FALSE}) \cup Ranges({FALSE}) \cup ColumnRanges({FALSE}) \cup RowRanges({FALSE})

\* the members a drawn NonContiguous is built from: one or two of every
\* variant, a reversed range, and NonContiguous members (empty and nested)
MemberRefs ==
    { Cell(Address_new(0, 0)),
      Cell(Address_new(MaxIndex, MaxIndex)),
      ColumnRange(Column_new(0), Column_new(MaxIndex)),
      RowRange(Row_new(MaxIndex), Row_new(0)),
      Range(Address_new(0, 0), Address_new(MaxIndex, MaxIndex)),
      Range(Address_new(MaxIndex, 0), Address_new(0, MaxIndex)),
      NonContiguous(<<>>),
      NonContiguous(<<Cell(Address_new(0, 0))>>),
      NonContiguous(<<NonContiguous(<<>>), Cell(Address_new(MaxIndex, MaxIndex))>>) }

SeqsUpTo(S, n) == UNION {[1..k -> S] : k \in 0..n}

NonContiguousRefs == {NonContiguous(l) : l \in SeqsUpTo(MemberRefs, MaxMembers)}

\* the (self, other) pairs contains() is called on
ContainsPairs ==
    (BaseRefs \X BaseRefs)
        \cup (BaseRefs \X NonContiguousRefs)
        \cup (NonContiguousRefs \X BaseRefs)
        \cup {<<n, n>> : n \in NonContiguousRefs}
        \cup ({NonContiguous(<<m>>) : m \in MemberRefs} \X NonContiguousRefs)

(***************************************************************************)
(* Specification of contains(): draw a pair, call it once.                 *)
(***************************************************************************)
InitContains ==
    /\ op = "ready"
    /\ \E p \in ContainsPairs : self = p[1] /\ other = p[2]
    /\ result = Idle
    /\ range = Idle /\ iter = Idle /\ trace = Idle
    /\ input = Idle /\ build = Idle /\ outcome = Idle /\ output = Idle

Contains ==
    /\ op = "ready"
    /\ op' = "contains"
    /\ result' = RangeOrCell_contains(self, other)
    /\ UNCHANGED <<self, other, range, iter, trace, input, build, outcome, output>>

NextContains == Contains

SpecContains == InitContains /\ [][NextContains]_vars

(***************************************************************************)
(* Specification of contains() on three references a, b and c (self, other *)
(* and input): a.contains(b), b.contains(c) and a.contains(c) are called,  *)
(* each once, in any order; result holds the answers given so far.         *)
(***************************************************************************)
\* the references drawn: every cell of the grid, ranges and open ranges in
\* the four corner orders, and the members of unions, alone and in a union
TripleRefs ==
    Cells({FALSE}) \cup MemberRefs
        \cup { Range(Address_new(0, 0), Address_new(1, 1)),
               Range(Address_new(1, 1), Address_new(0, 0)),
               Range(Address_new(0, 1), Address_new(1, 0)),
               ColumnRange(Column_new(1), Column_new(0)),
               RowRange(Row_new(0), Row_new(1)),
               NonContiguous(<<Cell(Address_new(0, 0)), Cell(Address_new(1, 1))>>),
               NonContiguous(<<ColumnRange(Column_new(0), Column_new(MaxIndex))>>) }

InitTriple ==
    /\ op = "ready"
    /\ self \in TripleRefs /\ other \in TripleRefs /\ input \in TripleRefs
    /\ result = [ab |-> None, bc |-> None, ac |-> None]
    /\ range = Idle /\ iter = Idle /\ trace = Idle
    /\ build = Idle /\ outcome = Idle /\ output = Idle

ContainsAB ==
    /\ result.ab = None
    /\ op' = "contains"
    /\ result' = [result EXCEPT !.ab = Some(RangeOrCell_contains(self, other))]
    /\ UNCHANGED <<self, other, range, iter, trace, input, build, outcome, output>>

ContainsBC ==
    /\ result.bc = None
    /\ op' = "contains"
    /\ result' = [result EXCEPT !.bc = Some(RangeOrCell_contains(other, input))]
    /\ UNCHANGED <<self, other, range, iter, trace, input, build, outcome, output>>

ContainsAC ==
    /\ result.ac = None
    /\ op' = "contains"
    /\ result' = [result EXCEPT !.ac = Some(RangeOrCell_contains(self, input))]
    /\ UNCHANGED <<self, other, range, iter, trace, input, build, outcome, output>>

NextTriple == ContainsAB \/ ContainsBC \/ ContainsAC

SpecTriple == InitTriple /\ [][NextTriple]_vars

(***************************************************************************)
(* Specification of the transformations: draw a reference and an amount,   *)
(* call one of shift_down, shift_left, shift_right, shift_up, with_x,      *)
(* with_y on it.                                                           *)
(***************************************************************************)
\* the amounts and coordinates drawn: small ones, one past the grid, and the
\* largest usize
Amounts == 0..(MaxIndex + 1) \cup {UsizeMax}

\* cells at the far edge of the index space
EdgeRefs ==
    { Cell(Address_new(UsizeMax, UsizeMax)),
      Cell(Address_new(UsizeMax - 1, 0)),
      ColumnRange(Column_new(0), Column_new(UsizeMax)),
      RowRange(Row_new(UsizeMax), Row_new(1)) }

\* unions whose members carry absolute markers
MarkedUnions ==
    { NonContiguous(<<Cell(Address(Column(TRUE, 1), Row(FALSE, 1))),
                      RowRange(Row(TRUE, 0), Row(FALSE, MaxIndex))>>),
      NonContiguous(<<ColumnRange(Column(FALSE, MaxIndex), Column(TRUE, 0)),
                      Range(Address(Column(TRUE, 0), Row(TRUE, 1)),
                            Address(Column(FALSE, 1), Row(FALSE, 0)))>>) }

TransformRefs ==
    BaseRefs \cup Cells(BOOLEAN) \cup ColumnRanges(BOOLEAN) \cup RowRanges(BOOLEAN)
        \cup Ranges(BOOLEAN) \cup NonContiguousRefs \cup MarkedUnions \cup EdgeRefs

InitTransform ==
    /\ op = "ready"
    /\ self \in TransformRefs
    /\ input \in Amounts
    /\ result = Idle /\ other = Idle
    /\ range = Idle /\ iter = Idle /\ trace = Idle
    /\ build = Idle /\ outcome = Idle /\ output = Idle

ShiftDown ==
    /\ op = "ready"
    /\ op' = "shift_down"
    /\ result' = RangeOrCell_shift_down(self, input)
    /\ UNCHANGED <<self, other, range, iter, trace, input, build, outcome, output>>

ShiftLeft ==
    /\ op = "ready"
    /\ op' = "shift_left"
    /\ result' = RangeOrCell_shift_left(self, input)
    /\ UNCHANGED <<self, other, range, iter, trace, input, build, outcome, output>>

ShiftRight ==
    /\ op = "ready"
    /\ op' = "shift_right"
    /\ result' = RangeOrCell_shift_right(self, input)
    /\ UNCHANGED <<self, other, range, iter, trace, input, build, outcome, output>>

ShiftUp ==
    /\ op = "ready"
    /\ op' = "shift_up"
    /\ result' = RangeOrCell_shift_up(self, input)
    /\ UNCHANGED <<self, other, range, iter, trace, input, build, outcome, output>>

WithX ==
    /\ op = "ready"
    /\ op' = "with_x"
    /\ result' = RangeOrCell_with_x(self, input)
    /\ UNCHANGED <<self, other, range, iter, trace, input, build, outcome, output>>

WithY ==
    /\ op = "ready"
    /\ op' = "with_y"
    /\ result' = RangeOrCell_with_y(self, input)
    /\ UNCHANGED <<self, other, range, iter, trace, input, build, outcome, output>>

NextTransform == ShiftDown \/ ShiftLeft \/ ShiftRight \/ ShiftUp \/ WithX \/ WithY

SpecTransform == InitTransform /\ [][NextTransform]_vars

(***************************************************************************)
(* Specification of shifts in a row: draw a reference and an amount, then  *)
(* call at most MaxShifts shifts by that amount, each on the result of the *)
(* one before.  result is the reference so far, trace the shifts called.   *)
(***************************************************************************)
MaxShifts == 2

ShiftRefs ==
    Cells(BOOLEAN) \cup ColumnRanges(BOOLEAN) \cup RowRanges(BOOLEAN)
        \cup {Range(Address_new(0, MaxIndex), Address_new(MaxIndex, 0))}
        \cup {NonContiguous(<<m>>) : m \in MemberRefs}
        \cup MarkedUnions \cup EdgeRefs

InitShifts ==
    /\ op = "ready"
    /\ self \in ShiftRefs
    /\ input \in Amounts
    /\ result = self
    /\ trace = <<>>
    /\ other = Idle /\ range = Idle /\ iter = Idle
    /\ build = Idle /\ outcome = Idle /\ output = Idle

ThenShiftDown ==
    /\ Len(trace) < MaxShifts
    /\ op' = "shift_down"
    /\ result' = RangeOrCell_shift_down(result, input)
    /\ trace' = Append(trace, "shift_down")
    /\ UNCHANGED <<self, other, range, iter, input, build, outcome, output>>

ThenShiftLeft ==
    /\ Len(trace) < MaxShifts
    /\ op' = "shift_left"
    /\ result' = RangeOrCell_shift_left(result, input)
    /\ trace' = Append(trace, "shift_left")
    /\ UNCHANGED <<self, other, range, iter, input, build, outcome, output>>

ThenShiftRight ==
    /\ Len(trace) < MaxShifts
    /\ op' = "shift_right"
    /\ result' = RangeOrCell_shift_right(result, input)
    /\ trace' = Append(trace, "shift_right")
    /\ UNCHANGED <<self, other, range, iter, input, build, outcome, output>>

ThenShiftUp ==
    /\ Len(trace) < MaxShifts
    /\ op' = "shift_up"
    /\ result' = RangeOrCell_shift_up(result, input)
    /\ trace' = Append(trace, "shift_up")
    /\ UNCHANGED <<self, other, range, iter, input, build, outcome, output>>

NextShifts == ThenShiftDown \/ ThenShiftLeft \/ ThenShiftRight \/ ThenShiftUp

SpecShifts == InitShifts /\ [][NextShifts]_vars

(***************************************************************************)
(* Specification of contains() on references with absolute markers: draw a *)
(* pair, set the markers of each, call contains() once.                    *)
(***************************************************************************)
\* the markers of (from.column, from.row, to.column, to.row); a Cell takes
\* the first two, a ColumnRange and a RowRange the ones of their axis
MarkPatterns == [fc : BOOLEAN, fr : BOOLEAN, tc : BOOLEAN, tr : BOOLEAN]

RECURSIVE Mark(_, _)
Mark(r, f) ==
    CASE r.tag = "Cell" -> Cell(Address(Column(f.fc, r.a.column.x), Row(f.fr, r.a.row.y)))
      [] r.tag = "ColumnRange" -> ColumnRange(Column(f.fc, r.from.x), Column(f.tc, r.to.x))
      [] r.tag = "RowRange" -> RowRange(Row(f.fr, r.from.y), Row(f.tr, r.to.y))
      [] r.tag = "Range" ->
            Range(Address(Column(f.fc, r.from.column.x), Row(f.fr, r.from.row.y)),
                  Address(Column(f.tc, r.to.column.x), Row(f.tr, r.to.row.y)))
      [] r.tag = "NonContiguous" -> NonContiguous([k \in DOMAIN r.items |-> Mark(r.items[k], f)])

MarkedPool == Cells({FALSE}) \cup MemberRefs

InitMarked ==
    /\ op = "ready"
    /\ \E a \in MarkedPool, f \in MarkPatterns : self = Mark(a, f)
    /\ \E b \in MarkedPool, g \in MarkPatterns : other = Mark(b, g)
    /\ result = Idle
    /\ range = Idle /\ iter = Idle /\ trace = Idle
    /\ input = Idle /\ build = Idle /\ outcome = Idle /\ output = Idle

SpecMarked == InitMarked /\ [][NextContains]_vars

(***************************************************************************)
(* Specification of A1::contains: draw two named references, call it once. *)
(***************************************************************************)
\* absent, empty and two different names
ContainsNames == {None, Some(<<>>), Some(<<"S">>), Some(<<"S", "t">>)}
NamedRefs == {A1(n, r) : n \in ContainsNames, r \in Cells({FALSE}) \cup MemberRefs}

InitA1Contains ==
    /\ op = "ready"
    /\ self \in NamedRefs
    /\ other \in NamedRefs
    /\ result = Idle
    /\ range = Idle /\ iter = Idle /\ trace = Idle
    /\ input = Idle /\ build = Idle /\ outcome = Idle /\ output = Idle

A1Contains ==
    /\ op = "ready"
    /\ op' = "A1::contains"
    /\ result' = A1_contains(self, other)
    /\ UNCHANGED <<self, other, range, iter, trace, input, build, outcome, output>>

NextA1Contains == A1Contains

SpecA1Contains == InitA1Contains /\ [][NextA1Contains]_vars

(***************************************************************************)
(* Specification of enumeration: draw a reference, call iter() on it, then *)
(* call next() again and again, also after it has returned None.           *)
(***************************************************************************)
\* next() is called until it has returned None MaxNones times
MaxNones == 2

\* no enumeration of a drawn reference is as long as this
MaxCalls == (MaxMembers + 1) * (MaxIndex + 1) * (MaxIndex + 1) + MaxNones

IterRefs == BaseRefs \cup Ranges(BOOLEAN) \cup NonContiguousRefs

NoneCount(t) == Cardinality({k \in DOMAIN t : t[k] = None})

InitIter ==
    /\ op = "ready"
    /\ range \in IterRefs
    /\ iter = None /\ trace = <<>>
    /\ self = Idle /\ other = Idle /\ result = Idle
    /\ input = Idle /\ build = Idle /\ outcome = Idle /\ output = Idle

Iter ==
    /\ op = "ready"
    /\ op' = "iter"
    /\ iter' = RangeOrCell_iter(range)
    /\ trace' = <<>>
    /\ UNCHANGED <<range, self, other, result, input, build, outcome, output>>

IterNext ==
    /\ op \in {"iter", "next"}
    /\ NoneCount(trace) < MaxNones
    /\ Len(trace) < MaxCalls
    /\ LET n == Iterator_next(iter)
       IN  /\ iter' = n.it
           /\ trace' = Append(trace, n.item)
    /\ op' = "next"
    /\ UNCHANGED <<range, self, other, result, input, build, outcome, output>>

NextIter == Iter \/ IterNext

SpecIter == InitIter /\ [][NextIter]_vars

\* next() is called as long as the caller wants more: the loop of a `for`
\* or of collect() does not stop by itself
FairSpecIter == SpecIter /\ WF_vars(NextIter)

(***************************************************************************)
(* Specification of two enumerators over one reference: iter() is called   *)
(* for either of them at any time (again, to start over), and next() on    *)
(* either of them, in any interleaving.  Here iter and trace hold one      *)
(* entry per enumerator and self the reference as it was drawn.            *)
(***************************************************************************)
Enumerators == 1..2

\* a next() that moves every enumerator of the reference, not its own alone
Advance_shared(iters, i) == [k \in DOMAIN iters |-> Iterator_next(iters[i]).it]

\* fn next(&mut self): the enumerator it is called on is all it writes
Advance(iters, i) == [iters EXCEPT ![i] = Iterator_next(iters[i]).it]

PairRefs ==
    Cells({FALSE}) \cup ColumnRanges({FALSE}) \cup RowRanges({FALSE}) \cup MemberRefs
        \cup {NonContiguous(<<a, b>>) : a \in MemberRefs, b \in MemberRefs}

InitPair ==
    /\ op = "ready"
    /\ range \in PairRefs
    /\ self = range
    /\ iter = [i \in Enumerators |-> None]
    /\ trace = [i \in Enumerators |-> <<>>]
    /\ other = Idle /\ result = Idle
    /\ input = Idle /\ build = Idle /\ outcome = Idle /\ output = Idle

\* let it = range.iter(): iter(&self) reads the reference
PairIter(i) ==
    /\ iter' = [iter EXCEPT ![i] = RangeOrCell_iter(range)]
    /\ trace' = [trace EXCEPT ![i] = <<>>]
    /\ op' = "iter"
    /\ UNCHANGED <<range, self, other, result, input, build, outcome, output>>

PairNext(i) ==
    /\ iter[i] # None
    /\ NoneCount(trace[i]) < MaxNones
    /\ Len(trace[i]) < MaxCalls
    /\ iter' = Advance(iter, i)
    /\ trace' = [trace EXCEPT ![i] = Append(trace[i], Iterator_next(iter[i]).item)]
    /\ op' = "next"
    /\ UNCHANGED <<range, self, other, result, input, build, outcome, output>>

NextPair == \E i \in Enumerators : PairIter(i) \/ PairNext(i)

SpecPair == InitPair /\ [][NextPair]_vars

(***************************************************************************)
(* Specification of parsing: draw a string and a build, call one of the    *)
(* from_str functions on it; a parsed A1 is then written back as text.     *)
(***************************************************************************)
\* the strings of any characters drawn have at most MaxRawLen characters
MaxRawLen == 3
\* a canonical list drawn has at most MaxSegments segments
MaxSegments == 2

RawChars == {"A", "b", "$", "0", "1", "+", ":"}
RawStrings == SeqsUpTo(RawChars, MaxRawLen)

\* the strings of the grammar, in canonical (upper-case) form:
\*   reference := segment (',' segment)*    segment := colrange | rowrange | range | cell
\*   column := '$'? letters    row := '$'? digits    prefix := sheetname '!'
Concat(S, T) == {x \o y : x \in S, y \in T}
Optional(ch) == {<<>>, <<ch>>}
CanonColumns == Concat(Optional("$"), {<<"A">>, <<"C">>, <<"A", "A">>})
CanonRows == Concat(Optional("$"), {<<"1">>, <<"1", "0">>})
CanonCells == Concat(CanonColumns, CanonRows)
CanonSegments ==
    CanonCells
        \cup Concat(Concat(CanonCells, {<<":">>}), CanonCells)
        \cup Concat(Concat(CanonColumns, {<<":">>}), CanonColumns)
        \cup Concat(Concat(CanonRows, {<<":">>}), CanonRows)
ListSegments ==
    { <<"A", "1">>, <<"$", "A", "$", "1">>, <<"A", ":", "C">>,
      <<"1", ":", "1", "0">>, <<"A", "1", ":", "C", "1", "0">> }
RECURSIVE CanonLists(_)
CanonLists(n) ==
    IF n <= 1 THEN ListSegments
    ELSE Concat(Concat(CanonLists(n - 1), {<<",">>}), ListSegments)
CanonReferences == CanonSegments \cup UNION {CanonLists(n) : n \in 2..MaxSegments}
CanonPrefixes ==
    { <<>>,
      <<"F", "o", "o", "!">>,
      <<"'", "M", "y", " ", "S", "'", "!">>,
      <<"'", "B", "o", "'", "'", "s", "'", "!">> }
CanonStrings == Concat(CanonPrefixes, CanonReferences)

\* the inputs that open a quoted sheet name: a quote, at most MaxQuotedLen
\* characters with a quote, a `!` and a two-byte character among them, and
\* then nothing or a cell
MaxQuotedLen == 4
QuotedChars == {"'", "S", "é", "!"}
QuotedInputs ==
    Concat(Concat({<<"'">>}, SeqsUpTo(QuotedChars, MaxQuotedLen)),
           {<<>>, <<"A", "1">>})

\* the inputs that are at most MaxPieces pieces joined by commas: a piece is
\* empty, a cell, a range, or a text that is no reference
MaxPieces == 3
PieceStrings ==
    { <<>>, <<"A", "1">>, <<"A", ":", "C">>, <<"$", "1">>, <<"é", "1">> }
RECURSIVE PieceLists(_)
PieceLists(n) ==
    IF n <= 1 THEN PieceStrings
    ELSE PieceLists(n - 1) \cup Concat(Concat(PieceLists(n - 1), {<<",">>}), PieceStrings)
PieceInputs == PieceLists(MaxPieces)

\* segments with a colon whose sides are of different kinds
MixedInputs ==
    { <<"A", ":", "1">>, <<"A", "1", ":", "C">>, <<"1", ":", "A", "1">>,
      <<"$", "1", ":", "A">>, <<"A", "1", ":", "$", "1">> }

ParseInputs ==
    RawStrings \cup CanonStrings \cup QuotedInputs \cup PieceInputs \cup MixedInputs

InitParse ==
    /\ op = "ready"
    /\ input \in ParseInputs
    /\ build \in {"debug", "release"}
    /\ outcome = Idle /\ output = Idle
    /\ self = Idle /\ other = Idle /\ result = Idle
    /\ range = Idle /\ iter = Idle /\ trace = Idle

ColumnFromStr ==
    /\ op = "ready"
    /\ op' = "Column::from_str"
    /\ outcome' = Column_from_str(input, build)
    /\ UNCHANGED <<input, build, output, self, other, result, range, iter, trace>>

RowFromStr ==
    /\ op = "ready"
    /\ op' = "Row::from_str"
    /\ outcome' = Row_from_str(input)
    /\ UNCHANGED <<input, build, output, self, other, result, range, iter, trace>>

AddressFromStr ==
    /\ op = "ready"
    /\ op' = "Address::from_str"
    /\ outcome' = Address_from_str(input, build)
    /\ UNCHANGED <<input, build, output, self, other, result, range, iter, trace>>

A1FromStr ==
    /\ op = "ready"
    /\ op' = "A1::from_str"
    /\ outcome' = A1_from_str(input, build)
    /\ UNCHANGED <<input, build, output, self, other, result, range, iter, trace>>

\* A1::from_str(s).unwrap().to_string()
A1ToString ==
    /\ op = "A1::from_str"
    /\ IsOk(outcome)
    /\ op' = "A1::to_string"
    /\ output' = A1_display(outcome.v)
    /\ UNCHANGED <<input, build, outcome, self, other, result, range, iter, trace>>

NextParse == ColumnFromStr \/ RowFromStr \/ AddressFromStr \/ A1FromStr \/ A1ToString

SpecParse == InitParse /\ [][NextParse]_vars

(***************************************************************************)
(* Specification of the column text: draw a Column, write it as text, read *)
(* the text back as written and in lower case.                             *)
(***************************************************************************)
\* the largest column index drawn: past ZZ (701) and AAA (702)
MaxColumn == 730

to_ascii_lowercase(ch) ==
    LET k == IndexOf(ALPHA, ch) IN IF IsSome(k) THEN LowerAlpha[k.v + 1] ELSE ch

InitColumn ==
    /\ op = "ready"
    /\ input \in {Column(f, x) : f \in BOOLEAN, x \in 0..MaxColumn}
    /\ build \in {"debug", "release"}
    /\ outcome = Idle /\ output = Idle
    /\ self = Idle /\ other = Idle /\ result = Idle
    /\ range = Idle /\ iter = Idle /\ trace = Idle

ColumnToString ==
    /\ op = "ready"
    /\ op' = "Column::to_string"
    /\ output' = Column_display(input)
    /\ UNCHANGED <<input, build, outcome, self, other, result, range, iter, trace>>

\* Column::from_str(&column.to_string())
ColumnFromUpper ==
    /\ op = "Column::to_string"
    /\ op' = "Column::from_str(upper)"
    /\ outcome' = Column_from_str(output, build)
    /\ UNCHANGED <<input, build, output, self, other, result, range, iter, trace>>

\* Column::from_str(&column.to_string().to_ascii_lowercase())
ColumnFromLower ==
    /\ op = "Column::to_string"
    /\ op' = "Column::from_str(lower)"
    /\ outcome' = Column_from_str([k \in DOMAIN output |-> to_ascii_lowercase(output[k])], build)
    /\ UNCHANGED <<input, build, output, self, other, result, range, iter, trace>>

NextColumn == ColumnToString \/ ColumnFromUpper \/ ColumnFromLower

SpecColumn == InitColumn /\ [][NextColumn]_vars

(***************************************************************************)
(* Specification of formatting: draw an A1 value, write it as text.        *)
(***************************************************************************)
\* a sheet name drawn has at most MaxNameLen characters
MaxNameLen == 3

NameChars == {"S", "t", " ", "'"}
SheetNames == {None} \cup {Some(n) : n \in SeqsUpTo(NameChars, MaxNameLen)}
DisplayRefs == MemberRefs \cup Cells(BOOLEAN)
A1Values == {A1(n, r) : n \in SheetNames, r \in DisplayRefs}

InitDisplay ==
    /\ op = "ready"
    /\ input \in A1Values
    /\ build = Idle /\ outcome = Idle /\ output = Idle
    /\ self = Idle /\ other = Idle /\ result = Idle
    /\ range = Idle /\ iter = Idle /\ trace = Idle

A1Display ==
    /\ op = "ready"
    /\ op' = "A1::to_string"
    /\ output' = A1_display(input)
    /\ UNCHANGED <<input, build, outcome, self, other, result, range, iter, trace>>

NextDisplay == A1Display

SpecDisplay == InitDisplay /\ [][NextDisplay]_vars

(***************************************************************************)
(* Claims about contains().                                                *)
(***************************************************************************)
IsUnion(r) == r.tag = "NonContiguous"

\* C1: a Cell, Range, ColumnRange or RowRange X contains NonContiguous(L)
\* exactly when X contains every member of L.
C1_ContainsUnionIffEveryMember ==
    (op = "contains" /\ ~IsUnion(self) /\ IsUnion(other))
        => (result <=> \A k \in DOMAIN other.items : RangeOrCell_contains(self, other.items[k]))

\* the rectangle spanned by two corners, by min/max on each axis
InRectangle(c, from, to) ==
    /\ Min(from.column.x, to.column.x) <= c.column.x
    /\ c.column.x <= Max(from.column.x, to.column.x)
    /\ Min(from.row.y, to.row.y) <= c.row.y
    /\ c.row.y <= Max(from.row.y, to.row.y)

\* C2: a bounded Range contains a Cell exactly when the cell lies in the
\* rectangle spanned by from and to (whatever their order), contains a Range
\* exactly when both of its corners do, and never contains a ColumnRange or
\* a RowRange.
C2_RangeContainsByRectangle ==
    (op = "contains" /\ self.tag = "Range" /\ ~IsUnion(other))
        => (result <=>
              CASE other.tag = "Cell" -> InRectangle(other.a, self.from, self.to)
                [] other.tag = "Range" ->
                      /\ InRectangle(other.from, self.from, self.to)
                      /\ InRectangle(other.to, self.from, self.to)
                [] OTHER -> FALSE)

\* C3: every reference contains an equal copy of itself.
C3_ContainsReflexive ==
    (op = "contains" /\ self = other) => result = TRUE

\* C12: NonContiguous(L) contains c exactly when at least one member of L
\* contains c.
C12_UnionContainsIffSomeMember ==
    (op = "contains" /\ IsUnion(self))
        => (result <=> \E k \in DOMAIN self.items : RangeOrCell_contains(self.items[k], other))

\* a union of a cell and a column range holds a cell that only the column
\* range holds
C12_Witness ==
    /\ op = "contains"
    /\ self = NonContiguous(<<Cell(Address_new(0, 0)),
                              ColumnRange(Column_new(0), Column_new(MaxIndex))>>)
    /\ other = Cell(Address_new(MaxIndex, MaxIndex))
    /\ result = TRUE

Between(i, a, b) == Min(a, b) <= i /\ i <= Max(a, b)

\* C13: a ColumnRange, with its endpoints in either order, contains a Cell
\* exactly when the cell's column is between the endpoints inclusive, a
\* ColumnRange or Range exactly when both of its columns are, and never a
\* RowRange; a RowRange does the same with rows and never contains a
\* ColumnRange.
C13_OpenRangeContainsByAxis ==
    /\ (op = "contains" /\ self.tag = "ColumnRange" /\ ~IsUnion(other))
          => (result <=>
                CASE other.tag = "Cell" -> Between(other.a.column.x, self.from.x, self.to.x)
                  [] other.tag = "ColumnRange" ->
                        /\ Between(other.from.x, self.from.x, self.to.x)
                        /\ Between(other.to.x, self.from.x, self.to.x)
                  [] other.tag = "Range" ->
                        /\ Between(other.from.column.x, self.from.x, self.to.x)
                        /\ Between(other.to.column.x, self.from.x, self.to.x)
                  [] other.tag = "RowRange" -> FALSE)
    /\ (op = "contains" /\ self.tag = "RowRange" /\ ~IsUnion(other))
          => (result <=>
                CASE other.tag = "Cell" -> Between(other.a.row.y, self.from.y, self.to.y)
                  [] other.tag = "RowRange" ->
                        /\ Between(other.from.y, self.from.y, self.to.y)
                        /\ Between(other.to.y, self.from.y, self.to.y)
                  [] other.tag = "Range" ->
                        /\ Between(other.from.row.y, self.from.y, self.to.y)
                        /\ Between(other.to.row.y, self.from.y, self.to.y)
                  [] other.tag = "ColumnRange" -> FALSE)

\* a column range given backwards holds a bounded range inside its columns
C13_Witness ==
    /\ op = "contains"
    /\ self = ColumnRange(Column_new(MaxIndex), Column_new(0))
    /\ other = Range(Address_new(0, MaxIndex), Address_new(MaxIndex, 0))
    /\ result = TRUE

\* C14: a named reference a contains a named reference b exactly when
\* their sheet names are equal (absent equals absent only) and a's reference
\* contains b's reference.
C14_NamedContainsNeedsSameSheet ==
    op = "A1::contains"
        => (result <=>
              /\ IsSome(self.sheet_name) = IsSome(other.sheet_name)
              /\ IsSome(self.sheet_name) => self.sheet_name.v = other.sheet_name.v
              /\ RangeOrCell_contains(self.reference, other.reference))

\* two references without a sheet name, one inside the other
C14_Witness ==
    /\ op = "A1::contains"
    /\ self = A1(None, Range(Address_new(0, 0), Address_new(MaxIndex, MaxIndex)))
    /\ other = A1(None, Cell(Address_new(MaxIndex, 0)))
    /\ result = TRUE

\* the same two references on different sheets
C14_WitnessOtherSheet ==
    /\ op = "A1::contains"
    /\ self = A1(Some(<<"S">>), Range(Address_new(0, 0), Address_new(MaxIndex, MaxIndex)))
    /\ other = A1(None, Cell(Address_new(MaxIndex, 0)))
    /\ result = FALSE

Unmarked(r) == Mark(r, [fc |-> FALSE, fr |-> FALSE, tc |-> FALSE, tr |-> FALSE])

\* the Column and Row values written in a reference
RECURSIVE ColumnsOf(_)
ColumnsOf(r) ==
    CASE r.tag = "Cell" -> {r.a.column}
      [] r.tag = "ColumnRange" -> {r.from, r.to}
      [] r.tag = "RowRange" -> {}
      [] r.tag = "Range" -> {r.from.column, r.to.column}
      [] r.tag = "NonContiguous" -> UNION {ColumnsOf(r.items[k]) : k \in DOMAIN r.items}

RECURSIVE RowsOf(_)
RowsOf(r) ==
    CASE r.tag = "Cell" -> {r.a.row}
      [] r.tag = "ColumnRange" -> {}
      [] r.tag = "RowRange" -> {r.from, r.to}
      [] r.tag = "Range" -> {r.from.row, r.to.row}
      [] r.tag = "NonContiguous" -> UNION {RowsOf(r.items[k]) : k \in DOMAIN r.items}

\* C15: equality and ordering of Column and Row compare the index alone, and
\* a.contains(b) is what it is for a and b with every absolute marker
\* cleared, so flipping any marker in a or b does not change it.
C15_AbsoluteMarkerIsNotGeometry ==
    op = "contains" =>
        /\ result = RangeOrCell_contains(Unmarked(self), Unmarked(other))
        /\ \A c \in ColumnsOf(self), d \in ColumnsOf(other) :
              /\ Column_eq(c, d) <=> c.x = d.x
              /\ Column_lt(c, d) <=> c.x < d.x
        /\ \A c \in RowsOf(self), d \in RowsOf(other) :
              /\ Row_eq(c, d) <=> c.y = d.y
              /\ Row_lt(c, d) <=> c.y < d.y

\* a relative cell holds the same cell written with absolute markers
C15_Witness ==
    /\ op = "contains"
    /\ self = Cell(Address(Column(FALSE, MaxIndex), Row(FALSE, MaxIndex)))
    /\ other = Cell(Address(Column(TRUE, MaxIndex), Row(TRUE, MaxIndex)))
    /\ result = TRUE

\* C29: containment is transitive: when a.contains(b) and b.contains(c)
\* then a.contains(c).
C29_ContainsTransitive ==
    (result.ab = Some(TRUE) /\ result.bc = Some(TRUE) /\ result.ac # None)
        => result.ac = Some(TRUE)

(***************************************************************************)
(* Claims about enumeration.                                               *)
(***************************************************************************)
Ended(t) == \E k \in DOMAIN t : t[k] = None

\* what collect() or a `for` loop sees: the items before the first None
Collected(t) ==
    LET stop == IF Ended(t)
                THEN CHOOSE k \in DOMAIN t : t[k] = None /\ \A j \in 1..(k - 1) : t[j] # None
                ELSE Len(t) + 1
    IN  [k \in 1..(stop - 1) |-> t[k].v]

Abs(n) == IF n < 0 THEN -n ELSE n
Toward(from, to, d) == IF from <= to THEN from + d ELSE from - d

RangeWidth(r) == Abs(r.from.column.x - r.to.column.x) + 1
RangeHeight(r) == Abs(r.from.row.y - r.to.row.y) + 1

\* the k-th cell of the row-major walk from r.from to r.to, as (x, y)
RowMajor(r, k) ==
    <<Toward(r.from.column.x, r.to.column.x, (k - 1) % RangeWidth(r)),
      Toward(r.from.row.y, r.to.row.y, (k - 1) \div RangeWidth(r))>>

\* C5: the enumeration of a bounded Range is the row-major walk of its
\* rectangle from `from` to `to`: every cell once, width * height in all,
\* the column restarting at from's column on every row.
C5_RangeRowMajor ==
    (op = "next" /\ range.tag = "Range")
        => LET items == Collected(trace)
               total == RangeWidth(range) * RangeHeight(range)
           IN  /\ Len(items) <= total
               /\ \A k \in DOMAIN items :
                     /\ items[k].tag = "Cell"
                     /\ <<items[k].a.column.x, items[k].a.row.y>> = RowMajor(range, k)
               /\ Ended(trace) => Len(items) = total

\* the example of the claim: (0,0)-(2,2) walked to its end
C5_Witness ==
    /\ op = "next"
    /\ range = Range(Address_new(0, 0), Address_new(MaxIndex, MaxIndex))
    /\ Ended(trace)
    /\ Len(Collected(trace)) = (MaxIndex + 1) * (MaxIndex + 1)

\* a reversed walk run to its end
C5_WitnessReversed ==
    /\ op = "next"
    /\ range = Range(Address_new(MaxIndex, 0), Address_new(0, MaxIndex))
    /\ Ended(trace)
    /\ Len(Collected(trace)) = (MaxIndex + 1) * (MaxIndex + 1)

\* the complete enumeration of a reference: next() until the first None
RECURSIVE Drain(_, _)
Drain(it, fuel) ==
    LET n == Iterator_next(it)
    IN  IF fuel = 0 \/ ~IsSome(n.item) THEN <<>>
        ELSE <<n.item.v>> \o Drain(n.it, fuel - 1)

Enumeration(r) == Drain(RangeOrCell_iter(r), MaxCalls)

RECURSIVE ConcatEnumerations(_)
ConcatEnumerations(l) ==
    IF l = <<>> THEN <<>> ELSE Enumeration(Head(l)) \o ConcatEnumerations(Tail(l))

\* C6: the enumeration of NonContiguous(L) is the concatenation, in list
\* order, of the complete enumerations of the members of L.
C6_UnionConcatenates ==
    (op = "next" /\ range.tag = "NonContiguous" /\ Ended(trace))
        => Collected(trace) = ConcatEnumerations(range.items)

\* a union of non-empty members enumerated to its end as the claim says
C6_Witness ==
    /\ op = "next"
    /\ range = NonContiguous(<<Cell(Address_new(0, 0)),
                               ColumnRange(Column_new(0), Column_new(MaxIndex))>>)
    /\ Ended(trace)
    /\ Collected(trace) = ConcatEnumerations(range.items)
    /\ Len(Collected(trace)) = MaxIndex + 2

Reverse(q) == [k \in DOMAIN q |-> q[Len(q) + 1 - k]]

\* equality of two sequences of cells by ==, which compares indices
SameCells(p, q) ==
    /\ Len(p) = Len(q)
    /\ \A k \in DOMAIN p :
          p[k].tag = "Cell" /\ q[k].tag = "Cell" /\ Address_eq(p[k].a, q[k].a)

\* C16: the enumeration of Range{from: q, to: p} is the enumeration of
\* Range{from: p, to: q} in reverse order.
C16_SwappedRangeReverses ==
    (op = "next" /\ range.tag = "Range" /\ Ended(trace))
        => SameCells(Collected(trace), Reverse(Enumeration(Range(range.to, range.from))))

\* a range whose corners lie on the anti-diagonal, walked to its end
C16_Witness ==
    /\ op = "next"
    /\ range = Range(Address_new(0, MaxIndex), Address_new(MaxIndex, 0))
    /\ Ended(trace)
    /\ Len(Collected(trace)) = (MaxIndex + 1) * (MaxIndex + 1)
    /\ Collected(trace)[1] = Cell(Address_new(0, MaxIndex))

\* C17: the enumeration of ColumnRange{from, to} has |from - to| + 1 items,
\* the k-th being the one-column range of the column k - 1 steps from `from`
\* toward `to`; the enumeration of a RowRange is the same on rows.
C17_OpenRangeStepsToEnd ==
    /\ (op = "next" /\ range.tag = "ColumnRange") =>
          LET items == Collected(trace)
              total == Abs(range.from.x - range.to.x) + 1
          IN  /\ Len(items) <= total
              /\ \A k \in DOMAIN items :
                    /\ items[k].tag = "ColumnRange"
                    /\ items[k].from.x = Toward(range.from.x, range.to.x, k - 1)
                    /\ items[k].to.x = items[k].from.x
              /\ Ended(trace) => Len(items) = total
    /\ (op = "next" /\ range.tag = "RowRange") =>
          LET items == Collected(trace)
              total == Abs(range.from.y - range.to.y) + 1
          IN  /\ Len(items) <= total
              /\ \A k \in DOMAIN items :
                    /\ items[k].tag = "RowRange"
                    /\ items[k].from.y = Toward(range.from.y, range.to.y, k - 1)
                    /\ items[k].to.y = items[k].from.y
              /\ Ended(trace) => Len(items) = total

\* a column range given backwards, enumerated to its end
C17_Witness ==
    /\ op = "next"
    /\ range = ColumnRange(Column_new(MaxIndex), Column_new(0))
    /\ Ended(trace)
    /\ Len(Collected(trace)) = MaxIndex + 1
    /\ Collected(trace)[1] = ColumnRange(Column_new(MaxIndex), Column_new(MaxIndex))

\* a row range of one row
C17_WitnessSingle ==
    /\ op = "next"
    /\ range = RowRange(Row_new(MaxIndex), Row_new(MaxIndex))
    /\ Ended(trace)
    /\ Collected(trace) = <<RowRange(Row_new(MaxIndex), Row_new(MaxIndex))>>

\* what the first n calls of next() on an enumerator return
RECURSIVE Returns(_, _)
Returns(it, n) ==
    IF n = 0 THEN <<>>
    ELSE <<Iterator_next(it).item>> \o Returns(Iterator_next(it).it, n - 1)

C7_EnumerationEnds == <>(op = "next" /\ Ended(trace))

\* a range given backwards on both axes, enumerated to its end
C7_Witness ==
    /\ op = "next"
    /\ range = Range(Address_new(MaxIndex, MaxIndex), Address_new(0, 0))
    /\ Ended(trace)

\* the bound on the number of calls is never what stops an enumeration
C7_CallBoundNotReached == (op = "next" /\ Len(trace) = MaxCalls) => Ended(trace)

\* C25: once an advance of an enumerator has returned end-of-sequence,
\* every later advance of the same enumerator returns end-of-sequence.
C25_Fused ==
    op = "next"
        => \A j \in DOMAIN trace, k \in DOMAIN trace :
              (j < k /\ trace[j] = None) => trace[k] = None

\* C26: every item that the enumeration of a reference r yields is
\* contained in r.
C26_ItemsAreContained ==
    op = "next"
        => \A k \in DOMAIN trace :
              IsSome(trace[k]) => RangeOrCell_contains(range, trace[k].v)

\* C27: every cell that the enumeration of a bounded Range yields carries
\* the column marker and the row marker of the Range's `from` corner, on the
\* first row and on every later row.
C27_CellsKeepMarkers ==
    (op = "next" /\ range.tag = "Range")
        => \A k \in DOMAIN trace :
              IsSome(trace[k])
                  => /\ trace[k].v.a.column.absolute = range.from.column.absolute
                     /\ trace[k].v.a.row.absolute = range.from.row.absolute

(***************************************************************************)
(* Claims about the text conversions.                                      *)
(***************************************************************************)
\* C4: every canonical string of the grammar parses, and the parsed value
\* formats back to exactly that string.
C4_RoundTrip ==
    /\ (op = "A1::from_str" /\ input \in CanonStrings) => IsOk(outcome)
    /\ (op = "A1::to_string" /\ input \in CanonStrings) => output = input

\* the part of C4 that is about parsing alone
C4_CanonicalParses ==
    (op = "A1::from_str" /\ input \in CanonStrings) => IsOk(outcome)

\* the token without its optional leading `$`
TokenBody(s) == IF s # <<>> /\ Head(s) = "$" THEN Tail(s) ELSE s

RECURSIVE NumberOf(_)
NumberOf(ds) ==
    IF ds = <<>> THEN 0
    ELSE NumberOf(SubSeq(ds, 1, Len(ds) - 1)) * 10
            + (CHOOSE d \in 0..9 : Digits[d + 1] = ds[Len(ds)])

\* C8: the scalar parsers return a parse error for an empty token, a lone
\* `$` and a character outside the class (Column: letters, Row: digits);
\* Row also for a number below 1, and a Row token n is stored as n - 1.
C8_ScalarParsersReject ==
    LET body == TokenBody(input)
    IN  /\ (op = "Column::from_str"
               /\ (body = <<>> \/ \E k \in DOMAIN body : ~is_ascii_alphabetic(body[k])))
            => outcome = Err
        /\ (op = "Row::from_str"
               /\ (body = <<>> \/ \E k \in DOMAIN body : ~is_ascii_digit(body[k])))
            => outcome = Err
        /\ (op = "Row::from_str" /\ body # <<>>
               /\ \A k \in DOMAIN body : is_ascii_digit(body[k]))
            => outcome = IF NumberOf(body) < 1 THEN Err
                         ELSE Ok(Row(input # body, NumberOf(body) - 1))

\* the Row half of C8 and the Column half, each alone
C8_RowParserRejects ==
    LET body == TokenBody(input)
    IN  (op = "Row::from_str"
            /\ (body = <<>> \/ \E k \in DOMAIN body : ~is_ascii_digit(body[k])))
        => outcome = Err

C8_ColumnParserRejects ==
    LET body == TokenBody(input)
    IN  (op = "Column::from_str"
            /\ (body = <<>> \/ \E k \in DOMAIN body : ~is_ascii_alphabetic(body[k])))
        => outcome = Err

\* C9: a colon-free segment with no column run or no row run is a parse
\* error when parsed as a cell.
C9_CellNeedsBothRuns ==
    (op = "Address::from_str"
        /\ (\A k \in DOMAIN input : input[k] # ":")
        /\ \/ \A k \in DOMAIN input : ~is_ascii_alphabetic(input[k])
           \/ \A k \in DOMAIN input : ~is_ascii_digit(input[k]))
    => outcome = Err

RECURSIVE DoubledQuotes(_)
DoubledQuotes(n) ==
    IF n = <<>> THEN <<>>
    ELSE (IF Head(n) = "'" THEN <<"'", "'">> ELSE <<Head(n)>>) \o DoubledQuotes(Tail(n))

\* C10: a sheet name with whitespace or a single quote is written between
\* single quotes with every single quote doubled, then `!` and the
\* reference; a name with neither is written bare.
C10_SheetNameQuoting ==
    (op = "A1::to_string" /\ IsSome(input.sheet_name))
    => LET n == input.sheet_name.v
           quoted == \E k \in DOMAIN n : n[k] \in {" ", "'"}
       IN  output = (IF quoted THEN <<"'">> \o DoubledQuotes(n) \o <<"'">> ELSE n)
                        \o <<"!">> \o RangeOrCell_display(input.reference)

\* the position of the first quote of s from position p on that is not
\* the first of a pair of quotes, 0 if there is none
RECURSIVE ClosingQuote(_, _)
ClosingQuote(s, p) ==
    IF p > Len(s) THEN 0
    ELSE IF s[p] # "'" THEN ClosingQuote(s, p + 1)
    ELSE IF p < Len(s) /\ s[p + 1] = "'" THEN ClosingQuote(s, p + 2)
    ELSE p

\* s with every pair of quotes made one quote
RECURSIVE CollapseQuotes(_)
CollapseQuotes(s) ==
    IF s = <<>> THEN <<>>
    ELSE IF Len(s) >= 2 /\ s[1] = "'" /\ s[2] = "'"
    THEN <<"'">> \o CollapseQuotes(Tail(Tail(s)))
    ELSE <<Head(s)>> \o CollapseQuotes(Tail(s))

\* what parsing s, which starts with a quote, gives when the quoted name is
\* read as the claim says: reference is the result of parsing what follows
\* the `!`
QuotedName(s) == SubSeq(s, 2, ClosingQuote(s, 2) - 1)
AfterBang(s) == SubSeq(s, ClosingQuote(s, 2) + 2, Len(s))
ClosedWithBang(s) ==
    LET q == ClosingQuote(s, 2) IN q > 0 /\ q < Len(s) /\ s[q + 1] = "!"
QuotedParse(s, reference) ==
    IF ~ClosedWithBang(s) THEN Err
    ELSE IF ~IsOk(reference) THEN reference
    ELSE Ok(A1(Some(CollapseQuotes(QuotedName(s))), reference.v))

\* C21: parsing an input that starts with a single quote takes the text up
\* to the first unescaped closing quote as the sheet name, every doubled
\* quote made one, and needs `!` right after the closing quote; with no
\* closing quote, or another character after it, the result is a parse error.
C21_QuotedSheetName ==
    (op = "A1::from_str" /\ StartsWith(input, "'"))
    => outcome = QuotedParse(input, RangeOrCell_from_str(AfterBang(input), build))

\* the pieces of s between its commas: the i-th piece starts after the
\* cut with i - 1 cuts before it and ends before the next comma
Commas(s) == {k \in DOMAIN s : s[k] = ","}
PieceCount(s) == Cardinality(Commas(s)) + 1
Piece(s, i) ==
    LET start == CHOOSE c \in {0} \cup Commas(s) :
                    Cardinality({d \in {0} \cup Commas(s) : d < c}) = i - 1
        ends == {d \in Commas(s) \cup {Len(s) + 1} : d > start}
        end == CHOOSE d \in ends : \A e \in ends : d <= e
    IN  SubSeq(s, start + 1, end - 1)
\* the reference of an input without a sheet name
Unnamed(reference) == IF IsOk(reference) THEN Ok(A1(None, reference.v)) ELSE reference

\* C22: the remainder is split on `,`: one piece gives that piece's
\* reference directly; k > 1 pieces give a NonContiguous of exactly k members
\* in input order, none of them a NonContiguous; an empty piece (an empty
\* remainder too) makes the whole parse a parse error.
C22_CommaPieces ==
    (op = "A1::from_str" /\ input \in PieceInputs)
    => LET k == PieceCount(input)
           parsed == [i \in 1..k |-> parse_str(Piece(input, i), build)]
       IN  IF \E i \in 1..k : Piece(input, i) = <<>> THEN outcome = Err
           ELSE IF k = 1 THEN outcome = Unnamed(parsed[1])
           ELSE IF \A i \in 1..k : IsOk(parsed[i])
           THEN /\ outcome = Ok(A1(None, NonContiguous([i \in 1..k |-> parsed[i].v])))
                /\ \A i \in 1..k : parsed[i].v.tag # "NonContiguous"
           ELSE ~IsOk(outcome)

\* a segment with a colon and no sheet name, no quote and no comma
ColonSegment(s) ==
    /\ \E k \in DOMAIN s : s[k] = ":"
    /\ \A k \in DOMAIN s : s[k] \notin {",", "!", "'", " "}
BeforeColon(s) == SubSeq(s, 1, (CHOOSE k \in DOMAIN s : s[k] = ":" /\ \A j \in 1..(k - 1) : s[j] # ":") - 1)
AfterColon(s) == SubSeq(s, Len(BeforeColon(s)) + 2, Len(s))
OnlyDigitsAndDollar(s) == \A k \in DOMAIN s : s[k] \in {"$"} \cup {Digits[d] : d \in DOMAIN Digits}
OnlyLettersAndDollar(s) ==
    \A k \in DOMAIN s :
        s[k] \in {"$"} \cup {ALPHA[d] : d \in DOMAIN ALPHA} \cup {LowerAlpha[d] : d \in DOMAIN LowerAlpha}
\* the kinds of one side: a row token, a column token, or neither
SideKinds(s) ==
    (IF s # <<>> /\ OnlyDigitsAndDollar(s) THEN {"row"} ELSE {})
        \cup (IF s # <<>> /\ OnlyLettersAndDollar(s) THEN {"column"} ELSE {})
\* one side is a row token or a column token and the other side is not
\* of that kind
MixedPair(l, r) ==
    /\ l # <<>> /\ r # <<>>
    /\ SideKinds(l) \cup SideKinds(r) # {}
    /\ SideKinds(l) \cap SideKinds(r) = {}

\* C23: a segment with `:` whose sides are both digits and `$` is a RowRange
\* or a parse error; otherwise one whose sides are both letters and `$` is a
\* ColumnRange or a parse error; otherwise it is a bounded Range or a parse
\* error; a mixed pair such as A:1 or A1:C is a parse error; and a parsed
\* segment is of one class only.
C23_ColonClasses ==
    (op = "A1::from_str" /\ ColonSegment(input))
    => LET l == BeforeColon(input)
           r == AfterColon(input)
           rows == OnlyDigitsAndDollar(l) /\ OnlyDigitsAndDollar(r)
           columns == OnlyLettersAndDollar(l) /\ OnlyLettersAndDollar(r)
       IN  /\ outcome # Err
                => /\ IsOk(outcome)
                   /\ outcome.v.sheet_name = None
                   /\ outcome.v.reference.tag =
                         (IF rows THEN "RowRange" ELSE IF columns THEN "ColumnRange" ELSE "Range")
                   /\ ~(rows /\ columns)
           /\ MixedPair(l, r) => outcome = Err

(***************************************************************************)
(* Claims about the transformations.                                       *)
(***************************************************************************)
\* the column indices of a reference, in the order they are written
RECURSIVE ColumnIndices(_)
ColumnIndices(r) ==
    CASE r.tag = "Cell" -> <<r.a.column.x>>
      [] r.tag = "ColumnRange" -> <<r.from.x, r.to.x>>
      [] r.tag = "Range" -> <<r.from.column.x, r.to.column.x>>
      [] r.tag = "RowRange" -> <<>>
      [] r.tag = "NonContiguous" ->
            IF r.items = <<>> THEN <<>>
            ELSE ColumnIndices(Head(r.items)) \o ColumnIndices(NonContiguous(Tail(r.items)))

RECURSIVE RowIndices(_)
RowIndices(r) ==
    CASE r.tag = "Cell" -> <<r.a.row.y>>
      [] r.tag = "ColumnRange" -> <<>>
      [] r.tag = "Range" -> <<r.from.row.y, r.to.row.y>>
      [] r.tag = "RowRange" -> <<r.from.y, r.to.y>>
      [] r.tag = "NonContiguous" ->
            IF r.items = <<>> THEN <<>>
            ELSE RowIndices(Head(r.items)) \o RowIndices(NonContiguous(Tail(r.items)))

SaturatedAtZero(olds, n) == [k \in DOMAIN olds |-> Max(olds[k] - n, 0)]

\* C11: shift_left(n) leaves every column index at max(old - n, 0) and
\* shift_up(n) every row index at max(old - n, 0); no shift gives an index
\* outside 0..usize::MAX or one that moved the wrong way.
C11_ShiftSaturatesAtZero ==
    /\ op = "shift_left" =>
          /\ ColumnIndices(result) = SaturatedAtZero(ColumnIndices(self), input)
          /\ RowIndices(result) = RowIndices(self)
    /\ op = "shift_up" =>
          /\ RowIndices(result) = SaturatedAtZero(RowIndices(self), input)
          /\ ColumnIndices(result) = ColumnIndices(self)
    /\ op \in {"shift_right", "shift_down"} =>
          LET olds == IF op = "shift_right" THEN ColumnIndices(self) ELSE RowIndices(self)
              news == IF op = "shift_right" THEN ColumnIndices(result) ELSE RowIndices(result)
          IN  /\ Len(news) = Len(olds)
              /\ \A k \in DOMAIN olds : olds[k] <= news[k] /\ news[k] <= UsizeMax

\* a cell in column 0 shifted left by the largest amount stays in column 0
C11_Witness ==
    /\ op = "shift_left"
    /\ self = Cell(Address_new(0, MaxIndex))
    /\ input = UsizeMax
    /\ result = Cell(Address_new(0, MaxIndex))

\* the shape with_x(x) is to give, on references without markers
RECURSIVE ShapeWithX(_, _)
ShapeWithX(r, x) ==
    CASE r.tag = "Cell" -> Cell(Address_new(x, r.a.row.y))
      [] r.tag = "ColumnRange" -> ColumnRange(Column_new(x), Column_new(x))
      [] r.tag = "RowRange" -> Range(Address_new(x, r.from.y), Address_new(x, r.to.y))
      [] r.tag = "Range" -> Range(Address_new(x, r.from.row.y), Address_new(x, r.to.row.y))
      [] r.tag = "NonContiguous" ->
            NonContiguous([k \in DOMAIN r.items |-> ShapeWithX(r.items[k], x)])

RECURSIVE ShapeWithY(_, _)
ShapeWithY(r, y) ==
    CASE r.tag = "Cell" -> Cell(Address_new(r.a.column.x, y))
      [] r.tag = "ColumnRange" -> Range(Address_new(r.from.x, y), Address_new(r.to.x, y))
      [] r.tag = "RowRange" -> RowRange(Row_new(y), Row_new(y))
      [] r.tag = "Range" -> Range(Address_new(r.from.column.x, y), Address_new(r.to.column.x, y))
      [] r.tag = "NonContiguous" ->
            NonContiguous([k \in DOMAIN r.items |-> ShapeWithY(r.items[k], y)])

C19_WitnessEqualCorners ==
    /\ op = "with_y"
    /\ self = ColumnRange(Column_new(MaxIndex), Column_new(MaxIndex))
    /\ input = 0
    /\ result = Range(Address_new(MaxIndex, 0), Address_new(MaxIndex, 0))

\* the column components of a reference, markers included, member by member
RECURSIVE ColumnComponents(_)
ColumnComponents(r) ==
    CASE r.tag = "Cell" -> <<r.a.column>>
      [] r.tag = "ColumnRange" -> <<r.from, r.to>>
      [] r.tag = "Range" -> <<r.from.column, r.to.column>>
      [] r.tag = "RowRange" -> <<>>
      [] r.tag = "NonContiguous" -> [k \in DOMAIN r.items |-> ColumnComponents(r.items[k])]

RECURSIVE RowComponents(_)
RowComponents(r) ==
    CASE r.tag = "Cell" -> <<r.a.row>>
      [] r.tag = "ColumnRange" -> <<>>
      [] r.tag = "Range" -> <<r.from.row, r.to.row>>
      [] r.tag = "RowRange" -> <<r.from, r.to>>
      [] r.tag = "NonContiguous" -> [k \in DOMAIN r.items |-> RowComponents(r.items[k])]

\* the shift of name o applied to r
ShiftBy(o, r, n) ==
    CASE o = "shift_down" -> RangeOrCell_shift_down(r, n)
      [] o = "shift_left" -> RangeOrCell_shift_left(r, n)
      [] o = "shift_right" -> RangeOrCell_shift_right(r, n)
      [] o = "shift_up" -> RangeOrCell_shift_up(r, n)

\* C24: shift_up and shift_down leave every column component as it was and
\* return a ColumnRange unchanged; shift_left and shift_right leave every row
\* component as it was and return a RowRange unchanged; the shift of a
\* NonContiguous has the same number of members, each one the shift of the
\* member at its place.
C24_ShiftsTouchOneAxis ==
    /\ op \in {"shift_up", "shift_down"}
          => /\ ColumnComponents(result) = ColumnComponents(self)
             /\ self.tag = "ColumnRange" => result = self
    /\ op \in {"shift_left", "shift_right"}
          => /\ RowComponents(result) = RowComponents(self)
             /\ self.tag = "RowRange" => result = self
    /\ (op \in {"shift_up", "shift_down", "shift_left", "shift_right"}
            /\ self.tag = "NonContiguous")
          => /\ result.tag = "NonContiguous"
             /\ Len(result.items) = Len(self.items)
             /\ \A k \in DOMAIN self.items : result.items[k] = ShiftBy(op, self.items[k], input)

\* a union of a marked column range and a marked range is shifted down:
\* the range moves, the columns and the column range stay
C24_Witness ==
    /\ op = "shift_down"
    /\ input > 0
    /\ self.tag = "NonContiguous" /\ Len(self.items) = 2
    /\ self.items[1].tag = "ColumnRange" /\ self.items[1].to.absolute
    /\ result.items[1] = self.items[1]
    /\ result.items[2] # self.items[2]

\* C28: with_x(x) keeps the index and the absolute marker of every row
\* component, and with_y(y) those of every column component, also where a
\* RowRange or a ColumnRange becomes a bounded Range.
C28_OverrideKeepsOtherAxis ==
    /\ op = "with_x" => RowComponents(result) = RowComponents(self)
    /\ op = "with_y" => ColumnComponents(result) = ColumnComponents(self)

\* every index of the sequence stays below the largest index when n is added
BelowMax(indices, n) == \A k \in DOMAIN indices : indices[k] < UsizeMax - n
\* no index of the sequence is less than n
AtLeast(indices, n) == \A k \in DOMAIN indices : indices[k] >= n

\* C30: when no index reaches the maximum, shift_right(n) then shift_left(n)
\* gives the reference back, and so does shift_down(n) then shift_up(n),
\* variant, corner order and markers included; shift_left(n) then
\* shift_right(n), and shift_up(n) then shift_down(n), give it back exactly
\* when no index saturated at 0.
C30_OppositeShiftUndoes ==
    /\ (trace = <<"shift_right", "shift_left">> /\ BelowMax(ColumnIndices(self), input))
          => result = self
    /\ (trace = <<"shift_down", "shift_up">> /\ BelowMax(RowIndices(self), input))
          => result = self
    /\ trace = <<"shift_left", "shift_right">>
          => (result = self <=> AtLeast(ColumnIndices(self), input))
    /\ trace = <<"shift_up", "shift_down">>
          => (result = self <=> AtLeast(RowIndices(self), input))

\* a union with absolute rows is shifted down and up again by a positive
\* amount and is as it was
C30_Witness ==
    /\ trace = <<"shift_down", "shift_up">>
    /\ input > 0
    /\ self.tag = "NonContiguous" /\ Len(self.items) = 2
    /\ self.items[2].tag = "RowRange" /\ self.items[2].from.absolute
    /\ result = self

\* a cell in column 0 is shifted left and right again and is not as it was
C30_WitnessSaturated ==
    /\ trace = <<"shift_left", "shift_right">>
    /\ input = 1
    /\ self = Cell(Address_new(0, 0))
    /\ result = Cell(Address_new(1, 0))

(***************************************************************************)
(* Claims about the column text.                                           *)
(***************************************************************************)
\* the letters of n >= 1 in bijective base 26: A = 1 .. Z = 26, no zero digit
RECURSIVE Bijective26(_)
Bijective26(n) ==
    IF n = 0 THEN <<>>
    ELSE Bijective26((n - 1) \div 26) \o <<ALPHA[((n - 1) % 26) + 1]>>

\* C20: a column index i is written as the letters of i + 1 in bijective
\* base 26 (after `$` when absolute); reading those letters gives back i,
\* and so does reading them in lower case.
C20_ColumnTextInverse ==
    /\ op \in {"Column::to_string", "Column::from_str(upper)", "Column::from_str(lower)"}
          => output = abs_char(input.absolute) \o Bijective26(input.x + 1)
    /\ op \in {"Column::from_str(upper)", "Column::from_str(lower)"}
          => outcome = Ok(Column(input.absolute, input.x))

\* index 27 is written AB and ab is read as 27
C20_Witness ==
    /\ op = "Column::from_str(lower)"
    /\ input = Column(FALSE, 27)
    /\ output = <<"A", "B">>
    /\ outcome = Ok(Column(FALSE, 27))

\* the first three-letter column
C20_WitnessThreeLetters ==
    /\ op = "Column::from_str(upper)"
    /\ input.x = 702
    /\ output = abs_char(input.absolute) \o <<"A", "A", "A">>
    /\ outcome = Ok(input)

====
